---- MODULE Spec2Model ----
(***************************************************************************)
(* State-machine model of data_quality_analyzer/analyzer.py:               *)
(* DataQualityAnalyzer.analyze() and the six analysis modules it calls.    *)
(*                                                                         *)
(* Conventions.                                                            *)
(*  - A cell is NaN (the null marker, the empty tuple) or <<v>>.           *)
(*  - A float result is NaN or <<h>>, h the value in hundredths (every     *)
(*    float the report holds is the result of .round(2)).                  *)
(*  - Quantiles are carried as numerators over 4 (the 0.25 and 0.75        *)
(*    interpolation weights are multiples of 1/4), fences over 8.          *)
(***************************************************************************)
EXTENDS Integers, Sequences, FiniteSets, TLC

VARIABLES
    df,        \* self.df: the DataFrame read by __init__
    pc,        \* position of analyze()
    report,    \* the workbook of the ExcelWriter: its sheets, in sheet order
    log,       \* the lines printed by the modules, in order
    attempts,  \* how many times each module has been invoked
    canRaise   \* whether statements inside the try blocks can raise in this run

vars == <<df, pc, report, log, attempts, canRaise>>

----------------------------------------------------------------------------
(* Bounds of the model *)

MaxRows == 1
StatRows == 4
OutlierRows == 5
Extreme == 6

----------------------------------------------------------------------------
(* The DataFrame *)

NaN == <<>>

isnull(cell) == cell = NaN

NumCells == {NaN, <<0>>, <<1>>, <<Extreme>>}
TextCells == {NaN, <<"a">>}

CellsOf(kind) == IF kind = "num" THEN NumCells ELSE TextCells

ColumnNames == <<"x", "y">>

\* dtype inference of pd.read_csv for a column whose non-empty tokens are all
\* numbers (kind "num") or all text (kind "text")
InferDtype(kind, cells) ==
    IF Len(cells) = 0 THEN "object"
    ELSE IF kind = "text" /\ \E i \in 1..Len(cells) : ~isnull(cells[i]) THEN "object"
    ELSE IF \E i \in 1..Len(cells) : isnull(cells[i]) THEN "float64"
    ELSE "int64"

read_csv_column(name, kind, cells) ==
    [name |-> name, dtype |-> InferDtype(kind, cells), cells |-> cells]

\* len(self.df)
len(d) == d.nrows

\* self.df.columns, as positions
columns(d) == 1..Len(d.cols)

\* self.df.select_dtypes(include=['int64', 'float64']).columns, in column order
RECURSIVE SelectFrom(_, _)
SelectFrom(d, i) ==
    IF i > Len(d.cols) THEN <<>>
    ELSE IF d.cols[i].dtype \in {"int64", "float64"}
         THEN <<i>> \o SelectFrom(d, i + 1)
         ELSE SelectFrom(d, i + 1)

select_dtypes(d) == SelectFrom(d, 1)

\* row i of the frame, as the tuple of its cells
Row(d, i) == [c \in 1..Len(d.cols) |-> d.cols[c].cells[i]]

----------------------------------------------------------------------------
(* Arithmetic helpers *)

RECURSIVE SumSeq(_)
SumSeq(s) == IF s = <<>> THEN 0 ELSE Head(s) + SumSeq(Tail(s))

\* number of TRUE entries of a boolean mask: Series.sum() of a boolean Series
RECURSIVE SumMask(_)
SumMask(m) == IF m = <<>> THEN 0 ELSE (IF Head(m) THEN 1 ELSE 0) + SumMask(Tail(m))

\* (num / den * 100).round(2), in hundredths; NaN when den = 0 (0/0 in numpy
\* and pandas is nan, not an exception).  numpy rounds half to even.
RoundPct(num, den) ==
    IF den = 0 THEN NaN
    ELSE LET q == (num * 10000) \div den
             r == (num * 10000) % den
         IN  IF 2 * r < den THEN <<q>>
             ELSE IF 2 * r > den THEN <<q + 1>>
             ELSE IF q % 2 = 0 THEN <<q>> ELSE <<q + 1>>

RECURSIVE Insert(_, _)
Insert(x, s) ==
    IF s = <<>> THEN <<x>>
    ELSE IF x <= Head(s) THEN <<x>> \o s
    ELSE <<Head(s)>> \o Insert(x, Tail(s))

RECURSIVE Sort(_)
Sort(s) == IF s = <<>> THEN <<>> ELSE Insert(Head(s), Sort(Tail(s)))

\* the non-null values of a column, in row order (nulls are skipped by
\* quantile, mean, count, nunique)
RECURSIVE dropna(_)
dropna(cells) ==
    IF cells = <<>> THEN <<>>
    ELSE IF isnull(Head(cells)) THEN dropna(Tail(cells))
    ELSE <<Head(cells)[1]>> \o dropna(Tail(cells))

\* Series.quantile(k/4), linear interpolation: rank = q * (n - 1), interpolate
\* between the adjacent order statistics.  Result times 4; NaN without values.
quantile(cells, k) ==
    LET xs  == Sort(dropna(cells))
        n   == Len(xs)
        pos == k * (n - 1)
        lo  == (pos \div 4) + 1
        fr  == pos % 4
    IN  IF n = 0 THEN NaN
        ELSE IF fr = 0 THEN <<4 * xs[lo]>>
        ELSE <<4 * xs[lo] + fr * (xs[lo + 1] - xs[lo])>>

----------------------------------------------------------------------------
(* The tables the modules compute *)

\* Series.nunique(): distinct non-null values
nunique(cells) == Cardinality({cells[i] : i \in {j \in 1..Len(cells) : ~isnull(cells[j])}})

\* Series.count(): non-null values
count(cells) == Cardinality({i \in 1..Len(cells) : ~isnull(cells[i])})

\* dtypes_df (Memory Usage is a platform figure and is not modelled)
DtypesTable(d) ==
    [c \in columns(d) |->
        [Column |-> d.cols[c].name,
         DataType |-> d.cols[c].dtype,
         UniqueValues |-> nunique(d.cols[c].cells)]]

\* self.df.describe(include='all').T: count for every column, the quartiles
\* for numeric ones (mean, std, top and freq are not modelled)
DescribeTable(d) ==
    [c \in columns(d) |->
        LET col == d.cols[c]
            num == col.dtype \in {"int64", "float64"}
        IN  [Column |-> col.name,
             count |-> count(col.cells),
             q25 |-> IF num THEN quantile(col.cells, 1) ELSE NaN,
             q50 |-> IF num THEN quantile(col.cells, 2) ELSE NaN,
             q75 |-> IF num THEN quantile(col.cells, 3) ELSE NaN]]

\* notnull().sum() in the place of isnull().sum()
notnull_sum(cells) == SumMask([i \in 1..Len(cells) |-> ~isnull(cells[i])])

\* self.df.isnull().sum(), for one column: the mask, then its sum
isnull_sum(cells) == SumMask([i \in 1..Len(cells) |-> isnull(cells[i])])

MissingTable(d) ==
    [c \in columns(d) |->
        [Column |-> d.cols[c].name,
         MissingCount |-> isnull_sum(d.cols[c].cells),
         MissingPercentage |-> RoundPct(isnull_sum(d.cols[c].cells), len(d))]]

\* DataFrame.duplicated() (keep='first'): scanning the rows in order, a row is
\* marked when an equal row was seen before; null markers compare equal
RECURSIVE DuplicatedFrom(_, _, _)
DuplicatedFrom(d, i, seen) ==
    IF i > len(d) THEN <<>>
    ELSE <<Row(d, i) \in seen>> \o DuplicatedFrom(d, i + 1, seen \cup {Row(d, i)})

\* duplicated(keep=False): every row that has an equal row anywhere is marked
duplicated_keep_false(d) ==
    [i \in 1..len(d) |-> \E j \in 1..len(d) : j # i /\ Row(d, j) = Row(d, i)]

duplicated(d) == DuplicatedFrom(d, 1, {})

\* the cells of the rows a boolean mask does not mark
RECURSIVE Unmarked(_, _)
Unmarked(cells, mask) ==
    IF cells = <<>> THEN <<>>
    ELSE IF Head(mask) THEN Unmarked(Tail(cells), Tail(mask))
    ELSE <<Head(cells)>> \o Unmarked(Tail(cells), Tail(mask))

\* DataFrame.drop_duplicates(): the rows that duplicated() does not mark
drop_duplicates(d) ==
    [nrows |-> Len(Unmarked([i \in 1..len(d) |-> i], duplicated(d))),
     cols |-> [c \in columns(d) |->
                 [d.cols[c] EXCEPT !.cells = Unmarked(d.cols[c].cells, duplicated(d))]]]

\* duplicates_info: one row
DuplicatesTable(d) ==
    [TotalDuplicates |-> SumMask(duplicated(d)),
     DuplicatePercentage |-> RoundPct(SumMask(duplicated(d)), len(d)),
     TotalUniqueRecords |-> len(drop_duplicates(d))]

\* distribution_stats: one row per numeric column.  Mean is <<sum, n>>, Median
\* is times 4; Std, Skewness and Kurtosis are kept as "value" or "nan" (pandas
\* gives nan below 2, 3 and 4 non-null values)
DistributionTable(d) ==
    LET nc == select_dtypes(d)
    IN  [k \in 1..Len(nc) |->
            LET col == d.cols[nc[k]]
                xs  == dropna(col.cells)
            IN  [Column |-> col.name,
                 Skewness |-> IF Len(xs) >= 3 THEN "value" ELSE "nan",
                 Kurtosis |-> IF Len(xs) >= 4 THEN "value" ELSE "nan",
                 Mean |-> IF Len(xs) = 0 THEN NaN ELSE <<SumSeq(xs), Len(xs)>>,
                 Median |-> quantile(col.cells, 2),
                 Std |-> IF Len(xs) >= 2 THEN "value" ELSE "nan"]]

\* the comparisons made with <= and >=
OutlierMask_inclusive(cells) ==
    LET Q1  == quantile(cells, 1)
        Q3  == quantile(cells, 3)
    IN  [i \in 1..Len(cells) |->
            IF isnull(cells[i]) \/ Q1 = NaN \/ Q3 = NaN THEN FALSE
            ELSE LET IQR == Q3[1] - Q1[1]
                     x8  == 8 * cells[i][1]
                 IN  (x8 <= 2 * Q1[1] - 3 * IQR) \/ (x8 >= 2 * Q3[1] + 3 * IQR)]

\* (self.df[col] < (Q1 - 1.5 * IQR)) | (self.df[col] > (Q3 + 1.5 * IQR)), as a
\* mask over the rows.  A comparison with NaN (a null cell, or the quantiles of
\* a column without values) is False.  Fences are carried times 8.
OutlierMask(cells) ==
    LET Q1  == quantile(cells, 1)
        Q3  == quantile(cells, 3)
    IN  [i \in 1..Len(cells) |->
            IF isnull(cells[i]) \/ Q1 = NaN \/ Q3 = NaN THEN FALSE
            ELSE LET IQR == Q3[1] - Q1[1]
                     x8  == 8 * cells[i][1]
                 IN  (x8 < 2 * Q1[1] - 3 * IQR) \/ (x8 > 2 * Q3[1] + 3 * IQR)]

\* the percentage taken over the non-null cells of the column
OutliersTable_nonnull(d) ==
    LET nc == select_dtypes(d)
    IN  [k \in 1..Len(nc) |->
            LET col == d.cols[nc[k]]
                outliers == SumMask(OutlierMask(col.cells))
            IN  [Column |-> col.name,
                 OutliersCount |-> outliers,
                 OutliersPercentage |-> RoundPct(outliers, count(col.cells))]]

\* outliers_df: one row per numeric column
OutliersTable(d) ==
    LET nc == select_dtypes(d)
    IN  [k \in 1..Len(nc) |->
            LET col == d.cols[nc[k]]
                outliers == SumMask(OutlierMask(col.cells))
            IN  [Column |-> col.name,
                 OutliersCount |-> outliers,
                 OutliersPercentage |-> RoundPct(outliers, len(d))]]

\* one entry of DataFrame.corr(): Pearson over the rows where both cells are
\* non-null; nan unless both columns vary over those rows.  The coefficient
\* itself is kept as "value" ("1.0" on the diagonal).
CorrEntry(d, a, b) ==
    LET both == {i \in 1..len(d) : ~isnull(d.cols[a].cells[i]) /\ ~isnull(d.cols[b].cells[i])}
        varies(c) == \E i, j \in both : d.cols[c].cells[i] # d.cols[c].cells[j]
    IN  IF ~(varies(a) /\ varies(b)) THEN "nan"
        ELSE IF a = b THEN "1.0" ELSE "value"

\* corr_matrix: numeric columns by numeric columns
CorrTable(d) ==
    LET nc == select_dtypes(d)
    IN  [labels |-> [k \in 1..Len(nc) |-> d.cols[nc[k]].name],
         matrix |-> [i \in 1..Len(nc) |-> [j \in 1..Len(nc) |-> CorrEntry(d, nc[i], nc[j])]]]

----------------------------------------------------------------------------
(* The workbook and the printed lines *)

\* DataFrame.to_excel(writer, sheet_name=...): a new sheet after the others
to_excel(book, sheet_name, data) == Append(book, [sheet |-> sheet_name, data |-> data])

\* print("... analysis completed")
Completed(lg, what) == Append(lg, [level |-> "completed", module |-> what, cause |-> ""])

\* a handler that swallows the exception without printing
Warning_silent(lg, what, e) == lg

\* except Exception as e: print(f"Warning: Error in ... : {str(e)}")
Warning(lg, what, e) == Append(lg, [level |-> "warning", module |-> what, cause |-> e])

\* the exceptions a statement inside a try block may raise in this run
Causes == IF canRaise THEN {"e"} ELSE {}

\* the calls of analyze(), in order, then the exit of the with block
Calls ==
    <<"_basic_info", "_missing_values_analysis", "_duplicates_analysis",
      "_data_distribution", "_outliers_analysis", "_correlation_analysis">>

Modules == {Calls[i] : i \in 1..Len(Calls)}

\* the calls with correlation made before the duplicates
AfterCall_reordered(m) ==
    LET cs == <<"_basic_info", "_missing_values_analysis", "_correlation_analysis",
                "_data_distribution", "_outliers_analysis", "_duplicates_analysis">>
        i  == CHOOSE k \in 1..Len(cs) : cs[k] = m
    IN  IF i < Len(cs) THEN cs[i + 1] ELSE "close"

\* what analyze() does after the call of module m returns
AfterCall(m) ==
    LET i == CHOOSE k \in 1..Len(Calls) : Calls[k] = m
    IN  IF i < Len(Calls) THEN Calls[i + 1] ELSE "close"

Attempt(m) == attempts' = [attempts EXCEPT ![m] = @ + 1]

----------------------------------------------------------------------------
(* Construction *)

Kinds == {"num", "text"}

Frame(n, cs) == [nrows |-> n, cols |-> cs]

\* __init__: self.df = pd.read_csv(file_path), for a file of one or two
\* columns and up to maxRows rows
Constructed(maxRows, secondKinds) ==
    \E n \in 0..maxRows, k1 \in Kinds :
      \E c1 \in [1..n -> CellsOf(k1)] :
        \/ df = Frame(n, <<read_csv_column(ColumnNames[1], k1, c1)>>)
        \/ \E k2 \in secondKinds :
             \E c2 \in [1..n -> CellsOf(k2)] :
               df = Frame(n, <<read_csv_column(ColumnNames[1], k1, c1),
                               read_csv_column(ColumnNames[2], k2, c2)>>)

Start ==
    /\ pc = "_basic_info"
    /\ report = <<>>
    /\ log = <<>>
    /\ attempts = [m \in Modules |-> 0]

Init == Constructed(MaxRows, Kinds) /\ Start /\ canRaise = TRUE

InitStats == Constructed(StatRows, {"text"}) /\ Start /\ canRaise = FALSE

\* a file of one column, of up to OutlierRows rows
InitOutliers == Constructed(OutlierRows, {}) /\ Start /\ canRaise = FALSE

----------------------------------------------------------------------------
(* The modules *)

_basic_info ==
    /\ pc = "_basic_info"
    /\ \/ \* lines 49-64 run through
          /\ report' = to_excel(to_excel(report, "Data Types", DtypesTable(df)),
                                "Basic Statistics", DescribeTable(df))
          /\ log' = Completed(log, "Basic info")
       \/ \* a statement up to dtypes_df.to_excel raises
          \E e \in Causes :
             /\ report' = report
             /\ log' = Warning(log, "basic info", e)
       \/ \* stats_df.to_excel raises, after the Data Types sheet was written
          \E e \in Causes :
             /\ report' = to_excel(report, "Data Types", DtypesTable(df))
             /\ log' = Warning(log, "basic info", e)
    /\ Attempt("_basic_info")
    /\ pc' = AfterCall("_basic_info")
    /\ UNCHANGED <<df, canRaise>>

\* the module dropping the rows that hold a null from self.df in place
_missing_values_analysis_dropna ==
    /\ pc = "_missing_values_analysis"
    /\ report' = to_excel(report, "Missing Values", MissingTable(df))
    /\ log' = Completed(log, "Missing values")
    /\ LET holds == [i \in 1..len(df) |-> \E c \in columns(df) : isnull(df.cols[c].cells[i])]
       IN  df' = [nrows |-> len(df) - SumMask(holds),
                  cols |-> [c \in columns(df) |->
                              [df.cols[c] EXCEPT !.cells = Unmarked(df.cols[c].cells, holds)]]]
    /\ Attempt("_missing_values_analysis")
    /\ pc' = AfterCall("_missing_values_analysis")
    /\ UNCHANGED canRaise

_missing_values_analysis ==
    /\ pc = "_missing_values_analysis"
    /\ \/ /\ report' = to_excel(report, "Missing Values", MissingTable(df))
          /\ log' = Completed(log, "Missing values")
       \/ \E e \in Causes :
             /\ report' = report
             /\ log' = Warning(log, "missing values", e)
    /\ Attempt("_missing_values_analysis")
    /\ pc' = AfterCall("_missing_values_analysis")
    /\ UNCHANGED <<df, canRaise>>

_duplicates_analysis ==
    /\ pc = "_duplicates_analysis"
    /\ \/ /\ report' = to_excel(report, "Duplicates", DuplicatesTable(df))
          /\ log' = Completed(log, "Duplicates")
       \/ \E e \in Causes :
             /\ report' = report
             /\ log' = Warning(log, "duplicates", e)
    /\ Attempt("_duplicates_analysis")
    /\ pc' = AfterCall("_duplicates_analysis")
    /\ UNCHANGED <<df, canRaise>>

_data_distribution ==
    /\ pc = "_data_distribution"
    /\ \/ /\ report' = IF Len(select_dtypes(df)) > 0
                       THEN to_excel(report, "Distribution Stats", DistributionTable(df))
                       ELSE report
          /\ log' = Completed(log, "Distribution")
       \/ \E e \in Causes :
             /\ report' = report
             /\ log' = Warning(log, "distribution", e)
    /\ Attempt("_data_distribution")
    /\ pc' = AfterCall("_data_distribution")
    /\ UNCHANGED <<df, canRaise>>

_outliers_analysis ==
    /\ pc = "_outliers_analysis"
    /\ \/ /\ report' = to_excel(report, "Outliers", OutliersTable(df))
          /\ log' = Completed(log, "Outliers")
       \/ \E e \in Causes :
             /\ report' = report
             /\ log' = Warning(log, "outliers", e)
    /\ Attempt("_outliers_analysis")
    /\ pc' = AfterCall("_outliers_analysis")
    /\ UNCHANGED <<df, canRaise>>

\* the module with the guard len(numerical_cols) > 1
_correlation_analysis_two ==
    /\ pc = "_correlation_analysis"
    /\ \/ /\ report' = IF Len(select_dtypes(df)) > 1
                       THEN to_excel(report, "Correlations", CorrTable(df))
                       ELSE report
          /\ log' = Completed(log, "Correlation")
       \/ \E e \in Causes :
             /\ report' = report
             /\ log' = Warning(log, "correlation", e)
    /\ Attempt("_correlation_analysis")
    /\ pc' = AfterCall("_correlation_analysis")
    /\ UNCHANGED <<df, canRaise>>

_correlation_analysis ==
    /\ pc = "_correlation_analysis"
    /\ \/ /\ report' = IF Len(select_dtypes(df)) > 0
                       THEN to_excel(report, "Correlations", CorrTable(df))
                       ELSE report
          /\ log' = Completed(log, "Correlation")
       \/ \E e \in Causes :
             /\ report' = report
             /\ log' = Warning(log, "correlation", e)
    /\ Attempt("_correlation_analysis")
    /\ pc' = AfterCall("_correlation_analysis")
    /\ UNCHANGED <<df, canRaise>>

\* the exit of "with pd.ExcelWriter(..., engine='openpyxl') as writer": the
\* workbook is saved.  openpyxl refuses a workbook without a sheet
\* (IndexError: At least one sheet must be visible); nothing in analyze()
\* catches it, so it leaves analyze().
ExcelWriter_exit ==
    /\ pc = "close"
    /\ pc' = IF report = <<>> THEN "raised" ELSE "_generate_visualizations"
    /\ UNCHANGED <<df, report, log, attempts, canRaise>>

\* _generate_visualizations, then the final print of analyze()
_generate_visualizations ==
    /\ pc = "_generate_visualizations"
    /\ \/ log' = Completed(log, "Visualizations")
       \/ \E e \in Causes : log' = Warning(log, "visualization generation", e)
    /\ pc' = "done"
    /\ UNCHANGED <<df, report, attempts, canRaise>>

analyze ==
    \/ _basic_info
    \/ _missing_values_analysis
    \/ _duplicates_analysis
    \/ _data_distribution
    \/ _outliers_analysis
    \/ _correlation_analysis
    \/ ExcelWriter_exit
    \/ _generate_visualizations

Next == analyze

Spec == Init /\ [][Next]_vars

SpecStats == InitStats /\ [][Next]_vars

SpecOutliers == InitOutliers /\ [][Next]_vars

----------------------------------------------------------------------------
(* Vocabulary of the properties *)

\* the sheets each module writes, and the name each module prints
SheetsOf(m) ==
    CASE m = "_basic_info" -> {"Data Types", "Basic Statistics"}
      [] m = "_missing_values_analysis" -> {"Missing Values"}
      [] m = "_duplicates_analysis" -> {"Duplicates"}
      [] m = "_data_distribution" -> {"Distribution Stats"}
      [] m = "_outliers_analysis" -> {"Outliers"}
      [] m = "_correlation_analysis" -> {"Correlations"}

Printed(m) ==
    CASE m = "_basic_info" -> {"Basic info", "basic info"}
      [] m = "_missing_values_analysis" -> {"Missing values", "missing values"}
      [] m = "_duplicates_analysis" -> {"Duplicates", "duplicates"}
      [] m = "_data_distribution" -> {"Distribution", "distribution"}
      [] m = "_outliers_analysis" -> {"Outliers", "outliers"}
      [] m = "_correlation_analysis" -> {"Correlation", "correlation"}

PublishedOrder ==
    <<"Data Types", "Basic Statistics", "Missing Values", "Duplicates",
      "Distribution Stats", "Outliers", "Correlations">>

Rank(s) == CHOOSE k \in 1..Len(PublishedOrder) : PublishedOrder[k] = s

Has(s) == \E i \in 1..Len(report) : report[i].sheet = s

Block(s) == report[CHOOSE i \in 1..Len(report) : report[i].sheet = s].data

Succeeded(m) ==
    \E i \in 1..Len(log) : log[i].level = "completed" /\ log[i].module \in Printed(m)

\* a failure of m was logged, with its cause
Failed(m) ==
    \E i \in 1..Len(log) :
        log[i].level = "warning" /\ log[i].module \in Printed(m) /\ log[i].cause # ""

AllCalled == pc \notin Modules

Terminated == pc \in {"done", "raised"}

NumericCount == Len(select_dtypes(df))

\* distribution and correlation write nothing for a frame without numeric columns
Skips(m) == m \in {"_data_distribution", "_correlation_analysis"} /\ NumericCount = 0

----------------------------------------------------------------------------
(* C1: in one run of analyze(), whichever modules fail, every module is     *)
(* attempted exactly once, a failure never prevents a later module, and the *)
(* run reaches Complete (never ends by an exception) once all were tried.   *)
C1_AllAttemptedThenComplete ==
    /\ \A m \in Modules : attempts[m] <= 1
    /\ AllCalled => \A m \in Modules : attempts[m] = 1
    /\ Terminated => pc = "done"

(* C2: the run always completes without a crash and emits the blocks that   *)
(* succeeded; when every module fails it still finishes normally, with an   *)
(* empty report, and no exception leaves analyze().                         *)
C2_RunAlwaysCompletes ==
    /\ pc # "raised"
    /\ pc = "done" =>
          \A m \in Modules : Succeeded(m) /\ ~Skips(m) => \A s \in SheetsOf(m) : Has(s)

(* C3, as claimed: at the end of the run a module's block is present if and *)
(* only if the module succeeded, and an absent block has a logged failure.  *)
C3_BlockPresentIffSucceeded ==
    AllCalled =>
        \A m \in Modules : \A s \in SheetsOf(m) :
            /\ Has(s) <=> Succeeded(m)
            /\ ~Has(s) => Failed(m)

(* C3, amended: at the end of the run a module that succeeded has its       *)
(* blocks in the report, unless it is distribution or correlation on a      *)
(* frame without numeric columns (they succeed and write nothing); a block  *)
(* is absent only if its module failed and the failure was logged with its  *)
(* cause, or in that no-numeric-column case; every module logged exactly    *)
(* one of success and failure.                                              *)
C3_BlockAbsentOnlyIfFailedOrSkipped ==
    AllCalled =>
        \A m \in Modules :
            /\ Succeeded(m) <=> ~Failed(m)
            /\ \A s \in SheetsOf(m) :
                 /\ Succeeded(m) /\ ~Skips(m) => Has(s)
                 /\ ~Has(s) => Failed(m) \/ (Skips(m) /\ Succeeded(m))

C3_Witness ==
    /\ pc = "done"
    /\ NumericCount = 0
    /\ Succeeded("_data_distribution") /\ ~Has("Distribution Stats")
    /\ Failed("_outliers_analysis") /\ ~Has("Outliers")
    /\ Failed("_basic_info") /\ Has("Data Types") /\ ~Has("Basic Statistics")
    /\ Succeeded("_missing_values_analysis") /\ Has("Missing Values")

(* C4: the blocks present in the report are always in the published order  *)
(* data types, basic statistics, missing values, duplicates, distribution,  *)
(* outliers, correlation, whatever subset of modules succeeds.              *)
C4_PublishedOrder ==
    \A i, j \in 1..Len(report) :
        i < j => Rank(report[i].sheet) < Rank(report[j].sheet)

C4_Witness ==
    /\ pc = "done"
    /\ Len(report) = 3
    /\ report[1].sheet = "Data Types"
    /\ report[2].sheet = "Duplicates"
    /\ report[3].sheet = "Correlations"

(* C10: the dataset is never changed after construction: no step of        *)
(* analyze(), successful or failing, changes a column, the row count or a   *)
(* cell of self.df.                                                         *)
C10_DatasetImmutable == [][df' = df]_vars

C10_Witness ==
    /\ pc = "done"
    /\ len(df) > 0
    /\ Failed("_duplicates_analysis")
    /\ Succeeded("_outliers_analysis")
    /\ \A m \in Modules : attempts[m] = 1

----------------------------------------------------------------------------
(* Independent readings of the frame, for the properties of the tables *)

Rows == 1..len(df)

NonNull(cells) == {i \in 1..Len(cells) : cells[i] # NaN}

\* the k-th smallest non-null value of a column, by counting
KthSmallest(cells, k) ==
    CHOOSE v \in {cells[i][1] : i \in NonNull(cells)} :
        /\ Cardinality({i \in NonNull(cells) : cells[i][1] < v}) < k
        /\ k <= Cardinality({i \in NonNull(cells) : cells[i][1] <= v})

\* the quartile q/4 of the non-null values, times 4 (rank q(n-1)/4, linear
\* interpolation between the neighbouring order statistics)
Quartile4(cells, q) ==
    LET n  == Cardinality(NonNull(cells))
        lo == (q * (n - 1)) \div 4 + 1
        fr == (q * (n - 1)) % 4
        hi == IF lo < n THEN lo + 1 ELSE n
    IN  4 * KthSmallest(cells, lo) + fr * (KthSmallest(cells, hi) - KthSmallest(cells, lo))

\* the non-null cells strictly outside the Tukey fences of the column
StrictlyOutside(cells) ==
    IF NonNull(cells) = {} THEN {}
    ELSE LET Q1  == Quartile4(cells, 1)
             Q3  == Quartile4(cells, 3)
             IQR == Q3 - Q1
         IN  {i \in NonNull(cells) :
                \/ 8 * cells[i][1] < 2 * Q1 - 3 * IQR
                \/ 8 * cells[i][1] > 2 * Q3 + 3 * IQR}

IsConstant(cells) ==
    /\ NonNull(cells) # {}
    /\ \A i, j \in NonNull(cells) : cells[i] = cells[j]

\* one value lies far outside the rest: farther from every other non-null
\* value than 4 times the spread of those others (at least two of them)
OneExtreme(cells) ==
    \E i \in NonNull(cells) :
        LET rest == NonNull(cells) \ {i}
            dist(j) == IF cells[i][1] > cells[j][1] THEN cells[i][1] - cells[j][1]
                       ELSE cells[j][1] - cells[i][1]
        IN  /\ Cardinality(rest) >= 2
            /\ \A j, k, l \in rest : dist(j) > 4 * (cells[k][1] - cells[l][1])

NumericColumns == {c \in columns(df) : df.cols[c].dtype \in {"int64", "float64"}}

\* the row of an Outliers block for the column named nm
RowFor(block, nm) == block[CHOOSE k \in 1..Len(block) : block[k].Column = nm]

----------------------------------------------------------------------------
(* C5: Total Duplicates is the number of rows equal in all columns (null    *)
(* markers included) to some earlier row, Total Unique Records the number   *)
(* of distinct rows, their sum the row count; a duplicate-free table with   *)
(* its own first k rows appended reports k duplicates and len(T) unique.    *)
C5_DuplicateCounts ==
    Has("Duplicates") =>
        LET b == Block("Duplicates")
        IN  /\ b.TotalDuplicates =
                 Cardinality({i \in Rows : \E j \in 1..(i - 1) : Row(df, j) = Row(df, i)})
            /\ b.TotalUniqueRecords = Cardinality({Row(df, i) : i \in Rows})
            /\ b.TotalDuplicates + b.TotalUniqueRecords = len(df)
            /\ \A k \in 0..len(df) :
                 LET t == len(df) - k
                 IN  ( /\ k <= t
                       /\ \A i, j \in 1..t : i # j => Row(df, i) # Row(df, j)
                       /\ \A i \in 1..k : Row(df, t + i) = Row(df, i) )
                     => b.TotalDuplicates = k /\ b.TotalUniqueRecords = t

C5_Witness ==
    /\ Has("Duplicates")
    /\ len(df) = 4
    /\ Len(df.cols) = 2
    /\ Row(df, 1) # Row(df, 2)
    /\ Row(df, 3) = Row(df, 1)
    /\ Row(df, 4) = Row(df, 2)
    /\ Row(df, 1)[2] = NaN
    /\ Block("Duplicates").TotalDuplicates = 2

(* C6: for a frame with at least one row, every column's Missing Count is   *)
(* the number of its null cells and its Missing Percentage is               *)
(* nullCount / rowCount * 100 rounded to 2 decimals (the hundredth nearest  *)
(* to the exact quotient).                                                  *)
C6_MissingCounts ==
    (Has("Missing Values") /\ len(df) >= 1) =>
        \A c \in columns(df) :
            LET r     == Block("Missing Values")[c]
                nulls == Cardinality({i \in Rows : df.cols[c].cells[i] = NaN})
                err   == r.MissingPercentage[1] * len(df) - nulls * 10000
            IN  /\ r.Column = df.cols[c].name
                /\ r.MissingCount = nulls
                /\ r.MissingPercentage # NaN
                /\ 2 * err <= len(df)
                /\ -2 * err <= len(df)

C6_Witness ==
    /\ Has("Missing Values")
    /\ len(df) = 3
    /\ \E c \in columns(df) :
          /\ Block("Missing Values")[c].MissingCount = 2
          /\ Block("Missing Values")[c].MissingPercentage = <<6667>>

(* C7: with zero rows the Missing-Value module does not raise and reports a *)
(* missing percentage of 0 for every column, not NaN.                       *)
C7_ZeroRowsPercentageZero ==
    (attempts["_missing_values_analysis"] = 1 /\ len(df) = 0) =>
        /\ Succeeded("_missing_values_analysis")
        /\ Has("Missing Values")
        /\ \A c \in columns(df) : Block("Missing Values")[c].MissingPercentage = <<0>>

(* C8, as claimed: for every numeric column Outliers Count is the number of *)
(* non-null values strictly outside the fences Q1 - 1.5 IQR, Q3 + 1.5 IQR   *)
(* taken over the non-null values; a constant column has IQR 0 and count 0; *)
(* a column with one extreme value far outside the rest has count >= 1.     *)
C8_OutlierCounts ==
    Has("Outliers") =>
        /\ Len(Block("Outliers")) = Cardinality(NumericColumns)
        /\ \A c \in NumericColumns :
             LET cells == df.cols[c].cells
                 r     == RowFor(Block("Outliers"), df.cols[c].name)
             IN  /\ r.OutliersCount = Cardinality(StrictlyOutside(cells))
                 /\ IsConstant(cells) =>
                       Quartile4(cells, 3) = Quartile4(cells, 1) /\ r.OutliersCount = 0
                 /\ OneExtreme(cells) => r.OutliersCount >= 1

(* C8, amended: as above, but the extreme value is promised to be counted   *)
(* only when the column has at least 4 non-null values.                     *)
C8_OutlierCountsFourValues ==
    Has("Outliers") =>
        /\ Len(Block("Outliers")) = Cardinality(NumericColumns)
        /\ \A c \in NumericColumns :
             LET cells == df.cols[c].cells
                 r     == RowFor(Block("Outliers"), df.cols[c].name)
             IN  /\ r.OutliersCount = Cardinality(StrictlyOutside(cells))
                 /\ IsConstant(cells) =>
                       Quartile4(cells, 3) = Quartile4(cells, 1) /\ r.OutliersCount = 0
                 /\ (OneExtreme(cells) /\ Cardinality(NonNull(cells)) >= 4) =>
                       r.OutliersCount >= 1

C8_Witness ==
    /\ Has("Outliers")
    /\ \E c \in NumericColumns :
          /\ OneExtreme(df.cols[c].cells)
          /\ ~IsConstant(df.cols[c].cells)
          /\ Cardinality(NonNull(df.cols[c].cells)) >= 4
          /\ \E i, j \in NonNull(df.cols[c].cells) :
                df.cols[c].cells[i] = <<0>> /\ df.cols[c].cells[j] = <<1>>
          /\ RowFor(Block("Outliers"), df.cols[c].name).OutliersCount = 1

(* C9, as claimed: with fewer than 2 numeric columns the Correlation module *)
(* succeeds and does not report a non-empty matrix.                         *)
C9_FewNumericEmptyMatrix ==
    (attempts["_correlation_analysis"] = 1 /\ NumericCount < 2) =>
        /\ Succeeded("_correlation_analysis")
        /\ Has("Correlations") => Len(Block("Correlations").labels) = 0

(* C9, amended: with no numeric column the Correlation module succeeds and  *)
(* writes no block at all; with exactly one numeric column it succeeds and  *)
(* reports the 1 x 1 matrix of that column against itself.                  *)
C9_FewNumericNoBlockOrOneByOne ==
    (attempts["_correlation_analysis"] = 1 /\ NumericCount < 2) =>
        /\ Succeeded("_correlation_analysis")
        /\ NumericCount = 0 => ~Has("Correlations")
        /\ NumericCount = 1 =>
              /\ Has("Correlations")
              /\ Len(Block("Correlations").labels) = 1
              /\ Len(Block("Correlations").matrix) = 1
              /\ Len(Block("Correlations").matrix[1]) = 1
              /\ \E c \in NumericColumns :
                    Block("Correlations").labels[1] = df.cols[c].name

C9_Witness ==
    /\ pc = "done"
    /\ NumericCount = 1
    /\ Len(df.cols) = 2
    /\ Has("Correlations")
    /\ Block("Correlations").matrix[1][1] = "1.0"

(* C11: for every numeric column Outliers Percentage is Outliers Count      *)
(* divided by the total row count of the frame (rows whose cell is null     *)
(* included) times 100, rounded to 2 decimals; hence it is at most          *)
(* nonNullCount / rowCount * 100.                                           *)
C11_OutliersPercentageOverAllRows ==
    Has("Outliers") =>
        \A c \in NumericColumns :
            LET cells == df.cols[c].cells
                r     == RowFor(Block("Outliers"), df.cols[c].name)
                total == Cardinality(Rows)
                err   == r.OutliersPercentage[1] * total - r.OutliersCount * 10000
            IN  /\ r.OutliersPercentage # NaN
                /\ r.OutliersCount = Cardinality(StrictlyOutside(cells))
                /\ 2 * err <= total
                /\ -2 * err <= total
                /\ r.OutliersPercentage[1] * total <= Cardinality(NonNull(cells)) * 10000

C11_Witness ==
    /\ Has("Outliers")
    /\ len(df) = 5
    /\ \E c \in NumericColumns :
          /\ Cardinality(NonNull(df.cols[c].cells)) = 4
          /\ RowFor(Block("Outliers"), df.cols[c].name).OutliersCount = 1
          /\ RowFor(Block("Outliers"), df.cols[c].name).OutliersPercentage = <<2000>>

====
